---- MODULE Spec2Model ----
(***************************************************************************)
(* State-machine model of snake_game.py: the Snake and Food objects, the   *)
(* GameScreen fixed-step update loop, and the App screen controller.       *)
(*                                                                         *)
(* Time is counted in units of 1/9000 s, so that a millisecond (the        *)
(* resolution of clock.tick) and the three step lengths 1/8, 1/12 and      *)
(* 1/18 s are all whole numbers.  For the frame times of DtSet, and for     *)
(* those of FrameSet up to six advances, the float accumulator of          *)
(* GameScreen.update makes the same number of advances on every call as    *)
(* this exact one.  It does not for every frame time: a Hard session given *)
(* one frame of 500 ms makes 8 advances and the ninth on the next call.    *)
(*                                                                         *)
(* GameScreen.update is followed through its while loop with pc: no event  *)
(* handler runs while pc is not "idle", as the program is single-threaded. *)
(* pc = "random_pos" is Food._random_pos sampling with no free cell left.  *)
(***************************************************************************)
EXTENDS Integers, Sequences, FiniteSets

(* ----------------------------- Config -------------------------------- *)
WINDOW_WIDTH == 640
WINDOW_HEIGHT == 480
GRID_SIZE == 20
GRID_COLS == WINDOW_WIDTH \div GRID_SIZE
GRID_ROWS == WINDOW_HEIGHT \div GRID_SIZE

Easy == 8
Medium == 12
Hard == 18
DIFFICULTIES == [Easy |-> Easy, Medium |-> Medium, Hard |-> Hard]

UP == <<0, -1>>
DOWN == <<0, 1>>
LEFT == <<-1, 0>>
RIGHT == <<1, 0>>

OPPOSITE(d) == <<0 - d[1], 0 - d[2]>>

(* ----------------------------- Bounds -------------------------------- *)
\* Advances of a live snake explored per session in Spec.
MaxAdvances == 4
\* The food draws explored: cells at most this far (wrapped Manhattan
\* distance) from the snake's head.
FoodReach == 1
\* Advances explored per session in SpecWrap.
WrapAdvances == 18
\* In SpecWrap the player steers only until the snake has made more than
\* this many advances.
SteerBy == 1

\* Advances explored per session in SpecFrames.
FrameAdvances == 4

\* Units of time per second and per millisecond.
UnitsPerSecond == 9000
UnitsPerMs == 9
\* The frame times explored, in milliseconds (dt = ms / 1000.0 seconds).
DtSet == {0, 125, 250}
\* The frame times explored in SpecFrames: the two frame times of a steady
\* 60 frames per second, and a frame that took 200 ms.
FrameSet == {16, 17, 200}

(* ----------------------------- Helpers ------------------------------- *)
Range(s) == {s[i] : i \in 1..Len(s)}
Front(s) == SubSeq(s, 1, Len(s) - 1)
Cells == (0..(GRID_COLS - 1)) \X (0..(GRID_ROWS - 1))
NoCell == <<-1, -1>>
Abs(n) == IF n < 0 THEN 0 - n ELSE n

(* ----------------------------- Snake --------------------------------- *)
\* A snake is a record [body, dir, grow, alive]; body[1] is the head.
Snake_reset ==
    LET cx == GRID_COLS \div 2
        cy == GRID_ROWS \div 2
    IN [body |-> <<<<cx, cy>>, <<cx - 1, cy>>, <<cx - 2, cy>>>>,
        dir |-> RIGHT, grow |-> 0, alive |-> TRUE]

NoSnake == [body |-> <<>>, dir |-> RIGHT, grow |-> 0, alive |-> FALSE]

\* Faulty variant: the reversal check is missing.
Snake_set_direction_noblock(s, new_dir) == [s EXCEPT !.dir = new_dir]

Snake_set_direction(s, new_dir) ==
    IF new_dir = OPPOSITE(s.dir) THEN s ELSE [s EXCEPT !.dir = new_dir]

\* Faulty variant: the new head is not wrapped around the grid.
new_head_nowrap(s) == <<s.body[1][1] + s.dir[1], s.body[1][2] + s.dir[2]>>

new_head(s) ==
    <<(s.body[1][1] + s.dir[1]) % GRID_COLS,
      (s.body[1][2] + s.dir[2]) % GRID_ROWS>>

\* Faulty variant: the collision check leaves out the tail cell that a step without
\* growth vacates.
Snake_update_vacated(s) ==
    IF ~s.alive THEN s
    ELSE IF new_head(s) \in Range(IF s.grow > 0 THEN s.body ELSE Front(s.body))
         THEN [s EXCEPT !.alive = FALSE]
    ELSE IF s.grow > 0
         THEN [s EXCEPT !.body = <<new_head(s)>> \o s.body, !.grow = s.grow - 1]
         ELSE [s EXCEPT !.body = <<new_head(s)>> \o Front(s.body)]

\* Faulty variant: pending growth is used up but the tail is removed all the same.
Snake_update_nogrow(s) ==
    IF ~s.alive THEN s
    ELSE IF new_head(s) \in Range(s.body) THEN [s EXCEPT !.alive = FALSE]
    ELSE [s EXCEPT !.body = <<new_head(s)>> \o Front(s.body),
                   !.grow = IF s.grow > 0 THEN s.grow - 1 ELSE 0]

\* Faulty variant: there is no collision check.
Snake_update_nocollide(s) ==
    IF ~s.alive THEN s
    ELSE IF s.grow > 0
         THEN [s EXCEPT !.body = <<new_head(s)>> \o s.body, !.grow = s.grow - 1]
         ELSE [s EXCEPT !.body = <<new_head(s)>> \o Front(s.body)]

\* Faulty variant: pending growth is never counted down.
Snake_update_nodec(s) ==
    IF ~s.alive THEN s
    ELSE IF new_head(s) \in Range(s.body) THEN [s EXCEPT !.alive = FALSE]
    ELSE IF s.grow > 0
         THEN [s EXCEPT !.body = <<new_head(s)>> \o s.body]
         ELSE [s EXCEPT !.body = <<new_head(s)>> \o Front(s.body)]

Snake_update(s) ==
    IF ~s.alive THEN s
    ELSE IF new_head(s) \in Range(s.body) THEN [s EXCEPT !.alive = FALSE]
    ELSE IF s.grow > 0
         THEN [s EXCEPT !.body = <<new_head(s)>> \o s.body, !.grow = s.grow - 1]
         ELSE [s EXCEPT !.body = <<new_head(s)>> \o Front(s.body)]

\* Faulty variant: eating lengthens the body at once.
Snake_eat_now(s) == [s EXCEPT !.body = s.body \o <<s.body[Len(s.body)]>>]

\* Faulty variant: one meal counts as two cells of growth.
Snake_eat_two(s) == [s EXCEPT !.grow = s.grow + 2]

Snake_eat(s) == [s EXCEPT !.grow = s.grow + 1]

(* ----------------------------- Food ---------------------------------- *)
\* The (x, y) pairs the two random.randint calls are taken to produce:
\* the cells within FoodReach of the snake's head.
Drawn(s) ==
    {<<(s.body[1][1] + dx) % GRID_COLS, (s.body[1][2] + dy) % GRID_ROWS>> :
        <<dx, dy>> \in {d \in ((0 - FoodReach)..FoodReach) \X ((0 - FoodReach)..FoodReach) :
                         Abs(d[1]) + Abs(d[2]) <= FoodReach}}

\* Faulty variant: the drawn cell is returned without looking at the body.
random_pos_any(s) == Drawn(s)

\* Faulty variant: the drawn cell is compared with the head only.
random_pos_head(s) == {c \in Drawn(s) : c # s.body[1]}

\* The cells _random_pos can return: the drawn cells off the body, and if
\* every drawn cell is on the body, whatever free cell a later draw finds.
\* The set is empty exactly when the body covers the grid: the loop then
\* never returns.
random_pos(s) ==
    LET near == {c \in Drawn(s) : c \notin Range(s.body)}
    IN IF near # {} THEN near ELSE {c \in Cells : c \notin Range(s.body)}

(* ----------------------------- State --------------------------------- *)
VARIABLES
    state,          \* App.state: "menu" | "howto" | "game"
    running,        \* the run loop's flag
    index,          \* MenuScreen.index
    game,           \* App.game: "None" or "GameScreen"
    snake,          \* GameScreen.snake
    food,           \* GameScreen.food.pos
    score,          \* GameScreen.score
    paused,         \* GameScreen.paused
    moves_per_sec,  \* GameScreen.moves_per_sec
    move_timer,     \* GameScreen.move_timer, in time units
    pc,             \* position inside GameScreen.update
    advances,       \* history: Snake.update calls on the live snake, this session
    eaten,          \* history: loop iterations that ended with the head on the food
    moved,          \* history: the heading the latest advance used
    elapsed         \* history: the time the session's timer has been given

vars == <<state, running, index, game, snake, food, score, paused,
          moves_per_sec, move_timer, pc, advances, eaten, moved, elapsed>>
session == <<snake, food, score, paused, moves_per_sec, move_timer>>
history == <<advances, eaten, moved, elapsed>>

options == <<"Play: Easy", "Play: Medium", "Play: Hard", "How to Play", "Quit">>
Keys == {"UP", "DOWN", "LEFT", "RIGHT", "P", "ESCAPE", "RETURN", "OTHER"}
NoDir == <<0, 0>>

\* The length of one simulation step, 1.0 / moves_per_sec seconds.
Step(mps) == UnitsPerSecond \div mps

Init ==
    /\ state = "menu"
    /\ running = TRUE
    /\ index = 0
    /\ game = "None"
    /\ snake = NoSnake
    /\ food = NoCell
    /\ score = 0
    /\ paused = FALSE
    /\ moves_per_sec = 0
    /\ move_timer = 0
    /\ pc = "idle"
    /\ advances = 0
    /\ eaten = 0
    /\ moved = NoDir
    /\ elapsed = 0

(* ----------------------------- Screens ------------------------------- *)
\* Faulty variant: the pause flag and the timer of the session before are
\* kept.
GameScreen_init_keep(difficulty_name, p) ==
    /\ snake' = Snake_reset
    /\ food' = p
    /\ score' = 0
    /\ moves_per_sec' = DIFFICULTIES[difficulty_name]
    /\ advances' = 0
    /\ eaten' = 0
    /\ moved' = NoDir
    /\ elapsed' = 0
    /\ UNCHANGED <<paused, move_timer>>

\* GameScreen.__init__ with the food cell p that Food.__init__ drew.
GameScreen_init(difficulty_name, p) ==
    /\ snake' = Snake_reset
    /\ food' = p
    /\ score' = 0
    /\ paused' = FALSE
    /\ moves_per_sec' = DIFFICULTIES[difficulty_name]
    /\ move_timer' = 0
    /\ advances' = 0
    /\ eaten' = 0
    /\ moved' = NoDir
    /\ elapsed' = 0

\* Faulty variant: the highlight stops at the first and the last option
\* instead of wrapping around.
Menu_handle_event_nowrap(key) ==
    /\ running /\ pc = "idle" /\ state = "menu"
    /\ \/ /\ key = "UP"
          /\ index' = IF index = 0 THEN 0 ELSE index - 1
          /\ UNCHANGED <<state, running, game, session, pc, history>>
       \/ /\ key = "DOWN"
          /\ index' = IF index = Len(options) - 1 THEN index ELSE index + 1
          /\ UNCHANGED <<state, running, game, session, pc, history>>
       \/ /\ key = "RETURN"
          /\ options[index + 1] \in {"Play: Easy", "Play: Medium", "Play: Hard"}
          /\ \E p \in random_pos(Snake_reset) :
                GameScreen_init(
                    CASE options[index + 1] = "Play: Easy" -> "Easy"
                      [] options[index + 1] = "Play: Medium" -> "Medium"
                      [] OTHER -> "Hard", p)
          /\ game' = "GameScreen"
          /\ state' = "game"
          /\ UNCHANGED <<running, index, pc>>
       \/ /\ key = "RETURN"
          /\ options[index + 1] = "How to Play"
          /\ state' = "howto"
          /\ UNCHANGED <<running, index, game, session, pc, history>>
       \/ /\ key = "RETURN"
          /\ options[index + 1] = "Quit"
          /\ running' = FALSE
          /\ UNCHANGED <<state, index, game, session, pc, history>>
       \/ /\ key \notin {"UP", "DOWN", "RETURN"}
          /\ UNCHANGED vars

\* App._handle_event in state "menu": MenuScreen.handle_event and the
\* dispatch on its result.
Menu_handle_event(key) ==
    /\ running /\ pc = "idle" /\ state = "menu"
    /\ \/ /\ key = "UP"
          /\ index' = (index - 1) % Len(options)
          /\ UNCHANGED <<state, running, game, session, pc, history>>
       \/ /\ key = "DOWN"
          /\ index' = (index + 1) % Len(options)
          /\ UNCHANGED <<state, running, game, session, pc, history>>
       \/ /\ key = "RETURN"
          /\ options[index + 1] \in {"Play: Easy", "Play: Medium", "Play: Hard"}
          /\ \E p \in random_pos(Snake_reset) :
                GameScreen_init(
                    CASE options[index + 1] = "Play: Easy" -> "Easy"
                      [] options[index + 1] = "Play: Medium" -> "Medium"
                      [] OTHER -> "Hard", p)
          /\ game' = "GameScreen"
          /\ state' = "game"
          /\ UNCHANGED <<running, index, pc>>
       \/ /\ key = "RETURN"
          /\ options[index + 1] = "How to Play"
          /\ state' = "howto"
          /\ UNCHANGED <<running, index, game, session, pc, history>>
       \/ /\ key = "RETURN"
          /\ options[index + 1] = "Quit"
          \* the posted QUIT event ends the run loop
          /\ running' = FALSE
          /\ UNCHANGED <<state, index, game, session, pc, history>>
       \/ /\ key \notin {"UP", "DOWN", "RETURN"}
          /\ UNCHANGED vars

\* App._handle_event in state "howto".
HowTo_handle_event(key) ==
    /\ running /\ pc = "idle" /\ state = "howto"
    /\ state' = IF key = "ESCAPE" THEN "menu" ELSE "howto"
    /\ UNCHANGED <<running, index, game, session, pc, history>>

KeyDir(key) ==
    CASE key = "UP" -> UP
      [] key = "DOWN" -> DOWN
      [] key = "LEFT" -> LEFT
      [] key = "RIGHT" -> RIGHT

\* Faulty variant: the confirm key restarts a dead snake in place instead
\* of returning to the menu.
Game_handle_event_restart(key) ==
    /\ running /\ pc = "idle" /\ state = "game"
    /\ \/ /\ key \in {"UP", "DOWN", "LEFT", "RIGHT"}
          /\ snake' = Snake_set_direction(snake, KeyDir(key))
          /\ UNCHANGED <<state, running, index, game, food, score, paused,
                         moves_per_sec, move_timer, pc, history>>
       \/ /\ key = "P"
          /\ paused' = ~paused
          /\ UNCHANGED <<state, running, index, game, snake, food, score,
                         moves_per_sec, move_timer, pc, history>>
       \/ /\ key = "ESCAPE"
          /\ state' = "menu"
          /\ UNCHANGED <<running, index, game, session, pc, history>>
       \/ /\ key = "RETURN"
          /\ snake' = IF ~snake.alive THEN Snake_reset ELSE snake
          /\ UNCHANGED <<state, running, index, game, food, score, paused,
                         moves_per_sec, move_timer, pc, history>>
       \/ /\ key = "OTHER"
          /\ UNCHANGED vars

\* Faulty variant: the confirm key returns to the menu whether or not the
\* snake is alive.
Game_handle_event_confirm(key) ==
    /\ running /\ pc = "idle" /\ state = "game"
    /\ \/ /\ key \in {"UP", "DOWN", "LEFT", "RIGHT"}
          /\ snake' = Snake_set_direction(snake, KeyDir(key))
          /\ UNCHANGED <<state, running, index, game, food, score, paused,
                         moves_per_sec, move_timer, pc, history>>
       \/ /\ key = "P"
          /\ paused' = ~paused
          /\ UNCHANGED <<state, running, index, game, snake, food, score,
                         moves_per_sec, move_timer, pc, history>>
       \/ /\ key \in {"ESCAPE", "RETURN"}
          /\ state' = "menu"
          /\ UNCHANGED <<running, index, game, session, pc, history>>
       \/ /\ key = "OTHER"
          /\ UNCHANGED vars

\* App._handle_event in state "game": GameScreen.handle_event and the
\* dispatch on its result.
Game_handle_event(key) ==
    /\ running /\ pc = "idle" /\ state = "game"
    /\ \/ /\ key \in {"UP", "DOWN", "LEFT", "RIGHT"}
          /\ snake' = Snake_set_direction(snake, KeyDir(key))
          /\ UNCHANGED <<state, running, index, game, food, score, paused,
                         moves_per_sec, move_timer, pc, history>>
       \/ /\ key = "P"
          /\ paused' = ~paused
          /\ UNCHANGED <<state, running, index, game, snake, food, score,
                         moves_per_sec, move_timer, pc, history>>
       \/ /\ key = "ESCAPE"
          /\ state' = "menu"
          /\ UNCHANGED <<running, index, game, session, pc, history>>
       \/ /\ key = "RETURN"
          /\ state' = IF ~snake.alive THEN "menu" ELSE "game"
          /\ UNCHANGED <<running, index, game, session, pc, history>>
       \/ /\ key = "OTHER"
          /\ UNCHANGED vars

(* ----------------------------- Update -------------------------------- *)
\* Faulty variant: update does not look at the pause flag.
App_update_nopause(dt) ==
    /\ running /\ pc = "idle"
    /\ IF state = "game" /\ game # "None" /\ snake.alive
       THEN /\ move_timer' = move_timer + dt * UnitsPerMs
            /\ elapsed' = elapsed + dt * UnitsPerMs
            /\ pc' = "while"
            /\ UNCHANGED <<state, running, index, game, snake, food, score,
                           paused, moves_per_sec, advances, eaten, moved>>
       ELSE UNCHANGED vars

\* App._update(dt) and the head of GameScreen.update: the early return, or
\* the timer takes dt and control enters the while loop.
App_update(dt) ==
    /\ running /\ pc = "idle"
    /\ IF state = "game" /\ game # "None" /\ ~(paused \/ ~snake.alive)
       THEN /\ move_timer' = move_timer + dt * UnitsPerMs
            /\ elapsed' = elapsed + dt * UnitsPerMs
            /\ pc' = "while"
            /\ UNCHANGED <<state, running, index, game, snake, food, score,
                           paused, moves_per_sec, advances, eaten, moved>>
       ELSE UNCHANGED vars

\* Faulty variant: the eat check looks one cell ahead of the head.
Eats_ahead(s, f) == s.body # <<>> /\ new_head(s) = f

\* Faulty variant: the eat check also accepts food on a cell next to the
\* head.
Eats_next(s, f) ==
    s.body # <<>> /\ Abs(s.body[1][1] - f[1]) + Abs(s.body[1][2] - f[2]) <= 1

\* The eat check of GameScreen.update.
Eats(s, f) == s.body # <<>> /\ s.body[1] = f

\* Faulty variant: an advance empties the timer instead of taking one step
\* off it.
While_step_reset ==
    /\ pc = "while"
    /\ move_timer >= Step(moves_per_sec)
    /\ move_timer' = 0
    /\ LET s1 == Snake_update(snake)
           eat == Eats(s1, food)
           s2 == IF eat THEN Snake_eat(s1) ELSE s1
       IN /\ snake' = s2
          /\ score' = IF eat THEN score + 1 ELSE score
          /\ IF eat
             THEN IF random_pos(s2) = {}
                  THEN pc' = "random_pos" /\ food' = food
                  ELSE pc' = "while" /\ food' \in random_pos(s2)
             ELSE pc' = "while" /\ food' = food
          /\ advances' = IF snake.alive THEN advances + 1 ELSE advances
          /\ eaten' = IF Len(s1.body) > 0 /\ s1.body[1] = food
                       THEN eaten + 1 ELSE eaten
          /\ moved' = IF snake.alive THEN snake.dir ELSE moved
    /\ UNCHANGED <<state, running, index, game, paused, moves_per_sec, elapsed>>

\* One iteration of the while loop of GameScreen.update: the step is taken
\* off the timer, the snake updates, and if its head is then on the food it
\* eats, the score counts it and the food respawns.
While_step ==
    /\ pc = "while"
    /\ move_timer >= Step(moves_per_sec)
    /\ move_timer' = move_timer - Step(moves_per_sec)
    /\ LET s1 == Snake_update(snake)
           eat == Eats(s1, food)
           s2 == IF eat THEN Snake_eat(s1) ELSE s1
       IN /\ snake' = s2
          /\ score' = IF eat THEN score + 1 ELSE score
          /\ IF eat
             THEN IF random_pos(s2) = {}
                  THEN pc' = "random_pos" /\ food' = food
                  ELSE pc' = "while" /\ food' \in random_pos(s2)
             ELSE pc' = "while" /\ food' = food
          /\ advances' = IF snake.alive THEN advances + 1 ELSE advances
          /\ eaten' = IF Len(s1.body) > 0 /\ s1.body[1] = food
                       THEN eaten + 1 ELSE eaten
          /\ moved' = IF snake.alive THEN snake.dir ELSE moved
    /\ UNCHANGED <<state, running, index, game, paused, moves_per_sec, elapsed>>

\* The while condition fails: GameScreen.update returns.
While_exit ==
    /\ pc = "while"
    /\ move_timer < Step(moves_per_sec)
    /\ pc' = "idle"
    /\ UNCHANGED <<state, running, index, game, session, history>>

\* The advances a call of update(dt) would make in the current state.
Due(dt) ==
    IF state = "game" /\ ~paused /\ snake.alive
    THEN (move_timer + dt * UnitsPerMs) \div Step(moves_per_sec)
    ELSE 0

Next ==
    \/ \E key \in Keys : Menu_handle_event(key)
    \/ \E key \in Keys : HowTo_handle_event(key)
    \/ \E key \in Keys : Game_handle_event(key)
    \/ \E dt \in DtSet : advances + Due(dt) <= MaxAdvances /\ App_update(dt)
    \/ While_step
    \/ While_exit

Spec == Init /\ [][Next]_vars

(* ----------------------------- Steps --------------------------------- *)
\* A step that is an advance: one call of Snake.update on the live snake.
Advance == pc = "while" /\ snake.alive /\ advances' = advances + 1

\* An advance after which the head is on the food cell: the snake is fed.
Fed == Advance /\ eaten' = eaten + 1

\* A step that creates a session.
NewSession == state = "menu" /\ state' = "game"

\* A step that places food: the creation of a session, or the respawn
\* after the head landed on the food.
Placement ==
    \/ NewSession
    \/ pc = "while" /\ eaten' = eaten + 1 /\ pc' = "while"

(* ----------------------------- Edge runs ----------------------------- *)
\* SpecWrap explores sessions long enough to cross each edge of the grid:
\* up to WrapAdvances advances, the player steering only until the snake
\* has made more than SteerBy advances and letting it run straight after.
NextWrap ==
    \/ \E key \in Keys : Menu_handle_event(key)
    \/ \E key \in Keys : HowTo_handle_event(key)
    \/ \E key \in Keys :
          /\ state = "game"
          /\ key \in {"UP", "DOWN", "LEFT", "RIGHT"} => advances <= SteerBy
          /\ Game_handle_event(key)
    \/ \E dt \in DtSet : advances + Due(dt) <= WrapAdvances /\ App_update(dt)
    \/ While_step
    \/ While_exit

SpecWrap == Init /\ [][NextWrap]_vars

(* ----------------------------- Fill runs ----------------------------- *)
\* SpecFill explores the sessions in which the snake sweeps the grid row by
\* row: the player keeps the heading RIGHT while the cell to the right of
\* the head is free and turns DOWN when it is not, every update makes at
\* most one advance, and every food cell drawn is the cell the head enters
\* next.
FillDir(s) ==
    IF <<(s.body[1][1] + 1) % GRID_COLS, s.body[1][2]>> \in Range(s.body)
    THEN DOWN ELSE RIGHT

FillCell(s) == new_head([s EXCEPT !.dir = FillDir(s)])

NextFill ==
    \/ \E key \in Keys :
          /\ Menu_handle_event(key)
          /\ Placement => food' = FillCell(snake')
    \/ \E key \in Keys : HowTo_handle_event(key)
    \/ \E key \in Keys :
          /\ state = "game"
          /\ key \in {"UP", "DOWN", "LEFT", "RIGHT"} => KeyDir(key) = FillDir(snake)
          /\ Game_handle_event(key)
    \/ \E dt \in DtSet :
          /\ Due(dt) <= 1
          /\ Due(dt) = 1 => snake.dir = FillDir(snake)
          /\ App_update(dt)
    \/ /\ While_step
       /\ Placement => food' = FillCell(snake')
    \/ While_exit

SpecFill == Init /\ [][NextFill]_vars

(* ----------------------------- Frame runs ---------------------------- *)
\* SpecFrames explores sessions that are never paused and never steered,
\* under the frame times of FrameSet, up to FrameAdvances advances: updates
\* that make no advance, one advance and several advances.
NextFrames ==
    \/ \E key \in Keys : Menu_handle_event(key)
    \/ \E key \in Keys : HowTo_handle_event(key)
    \/ \E key \in Keys :
          /\ key \in {"ESCAPE", "RETURN", "OTHER"}
          /\ Game_handle_event(key)
    \/ \E dt \in FrameSet : advances + Due(dt) <= FrameAdvances /\ App_update(dt)
    \/ While_step
    \/ While_exit

SpecFrames == Init /\ [][NextFrames]_vars

(* ----------------------------- Claims -------------------------------- *)
\* The session of the scenario, inside update(dt) with dt = 1/8 s added to
\* the empty accumulator and no advance made yet.
C1_Scenario ==
    /\ state = "game" /\ pc = "while"
    /\ moves_per_sec = Easy
    /\ snake = Snake_reset
    /\ Snake_reset.body = <<<<16, 12>>, <<15, 12>>, <<14, 12>>>>
    /\ food = <<17, 12>>
    /\ score = 0
    /\ advances = 0
    /\ move_timer = 125 * UnitsPerMs

\* C1 as stated: from the scenario the tick makes exactly one advance, after
\* which the head is (17,12), the score is 1, the body has 4 cells, and the
\* new food is on no body cell.
C1_AsStated ==
    [][C1_Scenario =>
        /\ advances' = 1
        /\ move_timer' < Step(moves_per_sec)
        /\ snake'.body[1] = <<17, 12>>
        /\ score' = 1
        /\ Len(snake'.body) = 4
        /\ food' \notin Range(snake'.body)]_vars

\* C1 amended: from the scenario the tick makes exactly one advance, after
\* which the head is (17,12), the score is 1, the body still has 3 cells
\* with one growth pending, and the new food is on no body cell.
C1_Scenario_DeferredGrowth ==
    [][C1_Scenario =>
        /\ advances' = 1
        /\ move_timer' < Step(moves_per_sec)
        /\ snake'.body[1] = <<17, 12>>
        /\ score' = 1
        /\ Len(snake'.body) = 3
        /\ snake'.grow = 1
        /\ food' \in Cells
        /\ food' \notin Range(snake'.body)]_vars

\* The scenario's tick has returned.
C1_Witness ==
    /\ state = "game" /\ pc = "idle"
    /\ moves_per_sec = Easy
    /\ advances = 1 /\ moved = RIGHT
    /\ move_timer = 0
    /\ snake.body = <<<<17, 12>>, <<16, 12>>, <<15, 12>>>>
    /\ snake.grow = 1
    /\ score = 1

\* C2: the heading an advance uses is never the exact opposite of the
\* heading the snake's previous advance used.
C2_NoReversal ==
    [][(Advance /\ moved # NoDir) => moved' # OPPOSITE(moved)]_vars

\* C3: an advance of the live snake kills it if and only if the wrapped new
\* head cell is in the body as it was before the advance, the tail cell
\* included; the killing advance leaves the body and the pending growth as
\* they were; an advance of a dead snake changes nothing of the snake; and
\* a dead snake stays dead for the rest of its session.
C3_DeathIffHeadInBody ==
    [][/\ Advance =>
            LET h == <<(snake.body[1][1] + snake.dir[1]) % GRID_COLS,
                       (snake.body[1][2] + snake.dir[2]) % GRID_ROWS>>
            IN /\ snake'.alive = (h \notin Range(snake.body))
               /\ ~snake'.alive =>
                     /\ snake'.body = snake.body
                     /\ snake'.grow = snake.grow
       /\ (pc = "while" /\ ~snake.alive) => snake' = snake
       /\ (game = "GameScreen" /\ ~snake.alive /\ ~NewSession) => ~snake'.alive]_vars

\* The snake has died by moving onto the cell of its own tail, which a step
\* without growth would have vacated.
C3_Witness ==
    /\ state = "game" /\ pc = "while"
    /\ ~snake.alive
    /\ snake.grow = 0
    /\ moved = snake.dir
    /\ new_head(snake) = snake.body[Len(snake.body)]

\* Between two advances of a session neither the body nor the pending
\* growth changes.
BetweenAdvances ==
    (game = "GameScreen" /\ ~Advance /\ ~NewSession) =>
        /\ snake'.body = snake.body
        /\ snake'.grow = snake.grow

\* C4 as stated: an advance that lands the head on food leaves the body
\* length as it was; the next advance, if the snake survives it, makes the
\* body one cell longer; an advance with no growth pending never changes the
\* length.
C4_AsStated ==
    [][/\ BetweenAdvances
       /\ Advance =>
        /\ Fed => Len(snake'.body) = Len(snake.body) /\ snake'.grow > 0
        /\ (snake.grow > 0 /\ snake'.alive) => Len(snake'.body) = Len(snake.body) + 1
        /\ snake.grow = 0 => Len(snake'.body) = Len(snake.body)]_vars

\* C4 amended: an advance that lands the head on food while no growth is
\* pending leaves the body length as it was (with growth pending from the
\* advance before, that advance itself makes the body one cell longer); it
\* leaves growth pending, and the next advance, if the snake survives it,
\* makes the body one cell longer; an advance with no growth pending never
\* changes the length.
C4_DeferredGrowth ==
    [][/\ BetweenAdvances
       /\ Advance =>
        /\ Fed => snake'.grow > 0
        /\ (Fed /\ snake.grow = 0) => Len(snake'.body) = Len(snake.body)
        /\ (snake.grow > 0 /\ snake'.alive) => Len(snake'.body) = Len(snake.body) + 1
        /\ snake.grow = 0 => Len(snake'.body) = Len(snake.body)]_vars

\* The snake was fed on two advances in a row: the second made it longer
\* and left growth pending again.
C4_Witness ==
    /\ state = "game"
    /\ advances = 2 /\ eaten = 2
    /\ Len(snake.body) = 4
    /\ snake.grow = 1

\* C5: the score equals the number of times an iteration of the update
\* loop ended with the head on the food cell; it changes only by +1 on
\* such an iteration, and is set to 0 when a session is created.
C5_ScoreCountsFood ==
    [][/\ game' = "GameScreen" => score' = eaten'
       /\ \/ score' = score
          \/ pc = "while" /\ eaten' = eaten + 1 /\ score' = score + 1
          \/ NewSession /\ score' = 0]_vars

\* Food has been eaten twice and the session has then been paused.
C5_Witness ==
    /\ state = "game" /\ pc = "idle"
    /\ paused
    /\ score = 2 /\ eaten = 2

\* C6: every cell food placement chooses, at session creation and at each
\* respawn, is inside the grid and not in the snake's body at that time.
C6_FoodOffBody ==
    [][Placement =>
        /\ food' \in Cells
        /\ food' \notin Range(snake'.body)]_vars

\* Food has respawned next to a snake that has grown.
C6_Witness ==
    /\ state = "game"
    /\ eaten >= 1
    /\ Len(snake.body) = 4
    /\ food \in Cells
    /\ food \notin Range(snake.body)

\* C7: whenever food placement is called some grid cell is off the snake's
\* body, so the sampling loop of _random_pos finds a cell and returns.
C7_PlacementTerminates ==
    pc = "random_pos" => \E c \in Cells : c \notin Range(snake.body)

\* C8: every body cell is inside the grid; an advance that the snake
\* survives puts the new head at the old head plus the heading, each axis
\* taken modulo the grid dimension; and an advance kills only when that
\* wrapped cell is in the body, so crossing an edge alone never does.
C8_Wrap ==
    [][/\ game' = "GameScreen" => \A i \in 1..Len(snake'.body) : snake'.body[i] \in Cells
       /\ Advance =>
            LET h == <<(snake.body[1][1] + snake.dir[1]) % GRID_COLS,
                       (snake.body[1][2] + snake.dir[2]) % GRID_ROWS>>
            IN /\ snake'.alive => snake'.body[1] = h
               /\ h \notin Range(snake.body) => snake'.alive]_vars

\* The live snake has just crossed the left edge: its head is in the last
\* column and its neck in column 0.
C8_Witness ==
    /\ state = "game"
    /\ snake.alive
    /\ moved = LEFT
    /\ snake.body[1][1] = GRID_COLS - 1
    /\ snake.body[2][1] = 0

\* C9: in the game screen, at any time between two calls of update and also
\* while paused, a direction key for the exact opposite of the current
\* heading changes nothing at all, and a direction key for any other
\* direction makes that direction the heading and changes nothing else.
C9_ReversalBlocked ==
    (running /\ state = "game" /\ pc = "idle") =>
        \A key \in {"UP", "DOWN", "LEFT", "RIGHT"} :
            LET target == IF KeyDir(key) = <<0 - snake.dir[1], 0 - snake.dir[2]>>
                          THEN snake.dir ELSE KeyDir(key)
            IN /\ ENABLED Game_handle_event(key)
               /\ ~ENABLED (/\ Game_handle_event(key)
                            /\ ~(/\ snake' = [snake EXCEPT !.dir = target]
                                 /\ UNCHANGED <<state, running, index, game, food,
                                                score, paused, moves_per_sec,
                                                move_timer, pc, history>>))

\* The session is paused and the live snake's heading has been set to UP
\* since its latest advance, which went RIGHT.
C9_Witness ==
    /\ state = "game" /\ pc = "idle"
    /\ paused
    /\ snake.alive
    /\ moved = RIGHT
    /\ snake.dir = UP

\* C10: the body of a session's snake never holds the same cell twice.
C10_BodyDistinct ==
    game = "GameScreen" => Cardinality(Range(snake.body)) = Len(snake.body)

\* A snake of four cells has run into itself and is dead.
C10_Witness ==
    /\ state = "game"
    /\ ~snake.alive
    /\ Len(snake.body) = 4
    /\ moved = snake.dir
    /\ new_head(snake) \in Range(snake.body)

\* C11: in the game screen the confirm key leads to the menu exactly when
\* the snake is dead, and with a live snake it changes nothing at all; the
\* back key leads to the menu whether the snake is alive or dead and whether
\* the session is paused or not.  Neither key changes the session.
C11_ConfirmAndBack ==
    (running /\ state = "game" /\ pc = "idle") =>
        /\ ENABLED Game_handle_event("RETURN")
        /\ ~ENABLED (/\ Game_handle_event("RETURN")
                     /\ ~(/\ state' = IF snake.alive THEN "game" ELSE "menu"
                          /\ UNCHANGED <<running, index, game, session, pc, history>>))
        /\ ENABLED Game_handle_event("ESCAPE")
        /\ ~ENABLED (/\ Game_handle_event("ESCAPE")
                     /\ ~(/\ state' = "menu"
                          /\ UNCHANGED <<running, index, game, session, pc, history>>))

\* The menu is showing again after a session whose snake died; the session
\* object is still the dead one.
C11_Witness ==
    /\ state = "menu" /\ pc = "idle"
    /\ game = "GameScreen"
    /\ ~snake.alive
    /\ advances >= 1

\* C12: the highlighted menu index is always one of 0..4; in the menu the
\* down key moves it from i to i+1, and from 4 to 0, the up key moves it
\* from i to i-1, and from 0 to 4, so that up undoes down; and neither key
\* changes the active screen or anything else.
C12_MenuCyclic ==
    /\ index \in 0..4
    /\ (running /\ state = "menu" /\ pc = "idle") =>
        LET down == IF index = 4 THEN 0 ELSE index + 1
            up == IF index = 0 THEN 4 ELSE index - 1
        IN /\ ENABLED Menu_handle_event("DOWN")
           /\ ~ENABLED (/\ Menu_handle_event("DOWN")
                        /\ ~(/\ index' = down
                             /\ UNCHANGED <<state, running, game, session, pc, history>>))
           /\ ENABLED Menu_handle_event("UP")
           /\ ~ENABLED (/\ Menu_handle_event("UP")
                        /\ ~(/\ index' = up
                             /\ UNCHANGED <<state, running, game, session, pc, history>>))
           /\ (IF down = 0 THEN 4 ELSE down - 1) = index

\* The menu highlights its last option before any session was started: the
\* index got there by four moves down or by one move up from 0.
C12_Witness ==
    /\ state = "menu" /\ pc = "idle"
    /\ game = "None"
    /\ index = 4

\* C13: while the session is paused or its snake is dead, a call of update
\* changes nothing, whatever dt is: body, heading, pending growth, food,
\* score and timer stay as they are; the pause key flips the pause flag and
\* changes nothing else; and no step taken while the session is paused
\* changes the timer, so that the timer at resuming is the timer at pausing.
C13_PausedOrDeadTickNoOp ==
    [][/\ (running /\ state = "game" /\ pc = "idle" /\ (paused \/ ~snake.alive)) =>
            \A dt \in DtSet :
                /\ ENABLED App_update(dt)
                /\ ~ENABLED (App_update(dt) /\ ~UNCHANGED vars)
       /\ (running /\ state = "game" /\ pc = "idle") =>
            /\ ENABLED Game_handle_event("P")
            /\ ~ENABLED (/\ Game_handle_event("P")
                         /\ ~(/\ paused' = ~paused
                              /\ UNCHANGED <<state, running, index, game, snake,
                                             food, score, moves_per_sec,
                                             move_timer, pc, history>>))
       /\ (game = "GameScreen" /\ paused /\ ~NewSession) =>
            move_timer' = move_timer]_vars

\* A Medium session is paused with the remainder of a frame on its timer.
C13_Witness ==
    /\ state = "game" /\ pc = "idle"
    /\ paused
    /\ snake.alive
    /\ advances >= 1
    /\ move_timer > 0

\* C14: every step from the menu into the game leaves a fresh session: the
\* rate of the option chosen (Easy 8, Medium 12, Hard 18), score 0, not
\* paused, timer 0, and a live snake of the three cells (16,12), (15,12),
\* (14,12) around the centre of the grid, heading RIGHT, with no growth
\* pending, whatever the session before held; and while the menu or the
\* how-to screen is showing, no step changes the session left behind.
C14_FreshSession ==
    [][/\ NewSession =>
            /\ index \in 0..2
            /\ moves_per_sec' = (CASE index = 0 -> 8 [] index = 1 -> 12 [] index = 2 -> 18)
            /\ score' = 0
            /\ paused' = FALSE
            /\ move_timer' = 0
            /\ snake'.alive
            /\ snake'.body = <<<<GRID_COLS \div 2, GRID_ROWS \div 2>>,
                               <<GRID_COLS \div 2 - 1, GRID_ROWS \div 2>>,
                               <<GRID_COLS \div 2 - 2, GRID_ROWS \div 2>>>>
            /\ snake'.body = <<<<16, 12>>, <<15, 12>>, <<14, 12>>>>
            /\ snake'.dir = <<1, 0>>
            /\ snake'.grow = 0
            /\ game' = "GameScreen"
       /\ (state # "game" /\ ~NewSession) =>
            UNCHANGED <<snake, food, score, paused, moves_per_sec, move_timer>>]_vars

\* A Hard session has just been entered from the menu and nothing has
\* happened in it yet.
C14_Witness ==
    /\ state = "game" /\ pc = "idle"
    /\ moves_per_sec = Hard
    /\ advances = 0
    /\ snake.body = <<<<16, 12>>, <<15, 12>>, <<14, 12>>>>
    /\ snake.dir = RIGHT
    /\ score = 0 /\ ~paused /\ move_timer = 0

\* C15: an advance that kills the snake is not followed by a consumption
\* of food: that iteration of the update loop leaves the score, the pending
\* growth and the food as they were, and so does every later step of the
\* session, the remaining iterations of the same update included.
C15_NoEatAfterDeath ==
    [][/\ (Advance /\ ~snake'.alive) =>
            /\ eaten' = eaten
            /\ score' = score
            /\ snake'.grow = snake.grow
            /\ food' = food
       /\ (game = "GameScreen" /\ ~snake.alive /\ ~NewSession) =>
            /\ eaten' = eaten
            /\ score' = score
            /\ snake'.grow = snake.grow
            /\ food' = food]_vars

\* A Medium snake died on its second advance, and the update that killed
\* it has since gone through at least one more iteration of its loop: the
\* timer is below one step, while the killing iteration left at least one
\* step on it.
C15_Witness ==
    /\ state = "game" /\ pc = "while"
    /\ moves_per_sec = Medium
    /\ ~snake.alive
    /\ advances = 2
    /\ move_timer < Step(Medium)

\* C16 as stated: once the snake is dead, no step changes its body, its
\* heading, its pending growth or its alive flag until the session is
\* replaced.
C16_AsStated ==
    [][(game = "GameScreen" /\ ~snake.alive /\ ~NewSession) =>
        /\ snake'.body = snake.body
        /\ snake'.dir = snake.dir
        /\ snake'.grow = snake.grow
        /\ snake'.alive = snake.alive]_vars

\* C16 amended: once the snake is dead, no step changes its body, its
\* pending growth or its alive flag until the session is replaced; its
\* heading is changed by the direction keys as that of a live snake is, to
\* any direction but the opposite of the current one, and by nothing else.
C16_DeadSnakeKeepsBody ==
    [][(game = "GameScreen" /\ ~snake.alive /\ ~NewSession) =>
        /\ snake'.body = snake.body
        /\ snake'.grow = snake.grow
        /\ snake'.alive = snake.alive
        /\ snake'.dir # snake.dir =>
              /\ state = "game" /\ pc = "idle"
              /\ snake'.dir \in {UP, DOWN, LEFT, RIGHT}
              /\ snake'.dir # <<0 - snake.dir[1], 0 - snake.dir[2]>>]_vars

\* The snake is dead and its heading is no longer the one of the advance
\* that killed it.
C16_Witness ==
    /\ state = "game" /\ pc = "idle"
    /\ ~snake.alive
    /\ advances >= 1
    /\ snake.dir # moved

\* C17: whenever a call of update has returned and the snake is alive, the
\* advances made in the session number the whole steps contained in the
\* time its timer has been given, floor(T * moves_per_sec), whether that
\* time came in frames of no advance, of one advance or of several; and what
\* is left on the timer is less than one step.
C17_RateIndependentOfFrames ==
    (game = "GameScreen" /\ pc = "idle" /\ snake.alive) =>
        /\ advances = (elapsed * moves_per_sec) \div UnitsPerSecond
        /\ move_timer * moves_per_sec < UnitsPerSecond

\* A Medium session has made four advances in a time that is not a whole
\* number of 200 ms frames, and part of a step is left on its timer.
C17_Witness ==
    /\ state = "game" /\ pc = "idle"
    /\ moves_per_sec = Medium
    /\ snake.alive
    /\ advances = 4
    /\ elapsed > 200 * UnitsPerMs
    /\ elapsed % (200 * UnitsPerMs) # 0
    /\ move_timer > 0

\* C18: in every state that can be drawn, that is at session creation and
\* whenever a call of update has returned, whatever number of advances it
\* made and whether or not the snake died, the food is on a cell of the grid
\* that is not a cell of the snake's body.
C18_FoodOffBodyWhenDrawn ==
    (game = "GameScreen" /\ pc = "idle") =>
        /\ food \in Cells
        /\ \A i \in 1..Len(snake.body) : snake.body[i] # food

\* An update has returned with the snake dead, after it had eaten and
\* grown to four cells.
C18_Witness ==
    /\ state = "game" /\ pc = "idle"
    /\ ~snake.alive
    /\ eaten >= 1
    /\ Len(snake.body) = 4
    /\ advances >= 3

\* C19: in every state of a session the length of the body plus the pending
\* growth is 3 plus the score.
C19_LengthPlusGrowth ==
    game = "GameScreen" => Len(snake.body) + snake.grow = 3 + score

\* The snake has eaten twice and has grown to five cells, with no growth
\* pending.
C19_Witness ==
    /\ state = "game"
    /\ score = 2
    /\ Len(snake.body) = 5
    /\ snake.grow = 0

\* C20: in every state of a session the pending growth is 0 or 1, also
\* inside an update that makes several advances each of which eats.
C20_GrowAtMostOne ==
    game = "GameScreen" => snake.grow \in {0, 1}

\* A Hard session is inside its first update of 125 ms, which has made two
\* advances that both ended on food: one growth is pending.
C20_Witness ==
    /\ state = "game" /\ pc = "while"
    /\ moves_per_sec = Hard
    /\ elapsed = 125 * UnitsPerMs
    /\ advances = 2 /\ eaten = 2
    /\ snake.grow = 1
    /\ Len(snake.body) = 4

====
